---- MODULE Spec2Model ----
(***************************************************************************)
(* Model of NovaPoshtaAPI (src/nova_poshta_api.py): a synchronous client   *)
(* that posts {apiKey, modelName, calledMethod, methodProperties} to one   *)
(* endpoint and normalises every reply into a {status, status_code, ...}   *)
(* envelope.                                                               *)
(*                                                                         *)
(* Conventions.                                                            *)
(*  - A Python dict is a function whose DOMAIN is the set of keys present; *)
(*    the empty dict is EmptyDict.  d.get(k, default) is Get(d, k, default)*)
(*  - A Python str is a sequence of text chunks; "" is <<>>.  Substring    *)
(*    tests look for a chunk, lower() maps every chunk through LowerChunk. *)
(*  - A Python list is a sequence.                                         *)
(*  - None is the one-chunk text None, different from every modelled text. *)
(***************************************************************************)
EXTENDS Integers, Sequences, FiniteSets, TLC

VARIABLES
    op,        \* name of the public operation called last
    args,      \* the arguments of that call
    calls,     \* requests posted to the endpoint during that call, in order
    replies,   \* transport outcomes received during that call, in order
    result,    \* the envelope the call returned (EmptyDict while it runs)
    pc,        \* "idle" before the call, "contacts" inside the loop of
               \* get_sender_data, "returned" once the call has returned
    senders,   \* get_sender_data: the envelope of the counterparty list call
    out        \* get_sender_data: the records aggregated so far

vars == <<op, args, calls, replies, result, pc, senders, out>>

----------------------------------------------------------------------------
(* Bounds of the model *)

MaxItems  == 2     \* longest upstream data array
MaxErrors == 2     \* longest upstream errors / messageCodes array
MaxTotal  == 2     \* largest info.totalCount the upstream reports
MaxWeight == 2     \* largest weight (specified or allowed)
MaxLimit  == 2     \* largest page size
MaxPage   == 2     \* largest page number

----------------------------------------------------------------------------
(* Python values *)

EmptyDict == <<>>
None      == <<"<None>">>

Get(d, k, default) == IF k \in DOMAIN d THEN d[k] ELSE default
Has(d, k)          == k \in DOMAIN d

\* all dicts over one optional key k with a value from S
Opt(k, S) == {EmptyDict} \cup { k :> v : v \in S }

\* sequences over S of length 0..n
SeqUpTo(S, n) == UNION { [1..m -> S] : m \in 0..n }

\* sep.join(list)
RECURSIVE Join(_, _)
Join(sep, list) ==
    IF list = <<>> THEN <<>>
    ELSE IF Len(list) = 1 THEN list[1]
    ELSE list[1] \o sep \o Join(sep, Tail(list))

\* str.lower(), chunk by chunk
LowerChunk(c) ==
    CASE c = "API key"  -> "api key"
      [] c = "Invalid"  -> "invalid"
      [] c = "INVALID"  -> "invalid"
      [] c = "K"        -> "k"
      [] c = "Y"        -> "y"
      [] c = "I"        -> "i"
      [] OTHER          -> c

Lower(s) == [i \in 1..Len(s) |-> LowerChunk(s[i])]

\* needle in s, for a one-chunk needle
Contains(s, needle) == \E i \in 1..Len(s) : s[i] = needle

\* str(n) of a number
Str(n) == <<ToString(n)>>

\* math.ceil(a / b) for b > 0
CeilDiv(a, b) == -((-a) \div b)

Max(a, b) == IF a >= b THEN a ELSE b

----------------------------------------------------------------------------
(* Enumerations and class constants *)

OK        == 200
NOT_FOUND == 404

SENDER    == "Sender"
RECIPIENT == "Recipient"
CARGO     == "Cargo"
PARCEL    == "Parcel"
MONEY     == "Money"
WAREHOUSE_WAREHOUSE == "WarehouseWarehouse"
CASH      == "Cash"
NON_CASH  == "NonCash"
POST_MACHINE == "Postomat"

api_key == <<"key">>

----------------------------------------------------------------------------
(* The transport: what session.post / raise_for_status / r.json() can do.  *)
(*   kind "network"    session.post raised a RequestException              *)
(*   kind "http_error" an HTTPError that carries no response was raised    *)
(*   kind "response"   a response with a status code arrived; json tells   *)
(*                     whether its body parses, body is the parsed body    *)

HttpCodes == {200, 302, 404, 500}

\* Response.raise_for_status raises for 4xx and 5xx only
RaisesForStatus(code) == 400 <= code /\ code < 600

Outcomes(bodies) ==
    {[kind |-> "network"], [kind |-> "http_error"]}
    \cup { [kind |-> "response", code |-> c, json |-> FALSE] : c \in HttpCodes }
    \cup { [kind |-> "response", code |-> c, json |-> TRUE, body |-> b] :
             c \in {c2 \in HttpCodes : ~RaisesForStatus(c2)}, b \in bodies }

\* str(e) of the exception raised for a reply
ErrorText(reply) ==
    CASE reply.kind = "network"    -> <<"connection failed">>
      [] reply.kind = "http_error" -> <<"http error">>
      [] reply.json = FALSE /\ ~RaisesForStatus(reply.code) -> <<"body is not JSON">>
      [] OTHER -> Str(reply.code) \o <<" Error">>

\* the payload built at the top of _post
Payload(model, method, props) ==
    [apiKey |-> api_key, modelName |-> model, calledMethod |-> method,
     methodProperties |-> props]

\* ErrorCode with the lower() forgotten: "invalid" is looked for in msg itself
ErrorCodeCaseSensitive(msg) ==
    IF Contains(msg, "API key") /\ Contains(msg, "invalid") THEN 401 ELSE 400

\* 401 if "API key" in msg and "invalid" in msg.lower() else 400
ErrorCode(msg) ==
    IF Contains(msg, "API key") /\ Contains(Lower(msg), "invalid") THEN 401 ELSE 400

\* "; ".join(errors or []) or "; ".join(messageCodes or []) or "API error"
ErrorMessage(body) ==
    LET e == Join(<<"; ">>, Get(body, "errors", <<>>))
        m == Join(<<"; ">>, Get(body, "messageCodes", <<>>))
    IN  IF e # <<>> THEN e ELSE IF m # <<>> THEN m ELSE <<"API error">>

\* {"status": True, "status_code": Status.OK, **body}: keys of body win
Spread(body) == body @@ [status |-> TRUE, status_code |-> OK]

\* the envelope _post returns for a transport outcome
_post(reply) ==
    IF reply.kind = "network"
    THEN [status |-> FALSE, status_code |-> 400, error |-> ErrorText(reply)]
    ELSE IF reply.kind = "http_error"
    THEN [status |-> FALSE, status_code |-> 400, error |-> ErrorText(reply)]
    ELSE IF RaisesForStatus(reply.code)
    THEN [status |-> FALSE, status_code |-> reply.code, error |-> ErrorText(reply)]
    ELSE IF ~reply.json
    THEN [status |-> FALSE, status_code |-> 400, error |-> ErrorText(reply)]
    ELSE IF ~Get(reply.body, "success", FALSE)
    THEN LET msg == ErrorMessage(reply.body)
         IN  [status |-> FALSE, status_code |-> ErrorCode(msg), error |-> msg,
              raw |-> reply.body]
    ELSE Spread(reply.body)

----------------------------------------------------------------------------
(* Upstream bodies *)

ErrorTexts == {<<>>, <<"API key">>, <<"Invalid">>}
CodeTexts  == {<<"20000200068">>}

\* bodies the upstream reports as failed, or that carry no success flag
FailedBodies ==
    { s @@ e @@ m : s \in Opt("success", {FALSE}),
                    e \in Opt("errors", SeqUpTo(ErrorTexts, MaxErrors)),
                    m \in Opt("messageCodes", SeqUpTo(CodeTexts, MaxErrors)) }

\* successful bodies over a set of data arrays and a set of info mappings;
\* a body may carry a field of its own named status
OkBodies(datas, infos) ==
    { [success |-> TRUE] @@ st @@ d @@ i :
        st \in Opt("status", {FALSE}), d \in Opt("data", datas), i \in Opt("info", infos) }

----------------------------------------------------------------------------
(* The client keeps nothing between calls (api_key, timeout and the        *)
(* session are set in __init__ and never assigned again), so a behaviour   *)
(* is one call on a constructed client: every operation starts from        *)
(* pc = "idle" and leaves pc = "returned".                                 *)

Returned(name, a, reqs, rs, res) ==
    /\ op' = name
    /\ args' = a
    /\ calls' = reqs
    /\ replies' = rs
    /\ result' = res
    /\ pc' = "returned"
    /\ UNCHANGED <<senders, out>>

----------------------------------------------------------------------------
(* Direct wrappers *)

Refs == {<<"ref1">>}

\* delete_waybill(ref)
delete_waybill ==
    /\ pc = "idle"
    /\ \E ref \in Refs :
       \E reply \in Outcomes(FailedBodies \cup OkBodies({<<>>, <<[Ref |-> ref]>>}, {})) :
          Returned("delete_waybill", [ref |-> ref],
                   <<Payload("InternetDocument", "delete", [DocumentRefs |-> ref])>>,
                   <<reply>>, _post(reply))

----------------------------------------------------------------------------
(* List operations *)

\* Python truthiness of resp.get("status")
StatusOf(resp) == Get(resp, "status", FALSE)

\* _list_ok testing "data is None" instead of "not data": an empty array passes
_list_ok_MissingOnly(resp, not_found_msg) ==
    IF ~StatusOf(resp) THEN resp
    ELSE IF ~Has(resp, "data")
         THEN [status |-> FALSE, status_code |-> NOT_FOUND, error |-> not_found_msg]
         ELSE [status |-> TRUE, data |-> resp.data, info |-> Get(resp, "info", EmptyDict)]

_list_ok(resp, not_found_msg) ==
    IF ~StatusOf(resp) THEN resp
    ELSE LET data == Get(resp, "data", <<>>)
         IN  IF data = <<>>
             THEN [status |-> FALSE, status_code |-> NOT_FOUND, error |-> not_found_msg]
             ELSE [status |-> TRUE, data |-> data, info |-> Get(resp, "info", EmptyDict)]

_map_city(c) ==
    [city_ref |-> Get(c, "Ref", None),
     city |-> Get(c, "Description", None),
     area |-> Get(c, "AreaDescription", None),
     settlement_type |-> Get(c, "SettlementTypeDescription", None)]

\* int(v or 0) of an upstream number
IntOr0(w, k) == Get(w, k, 0)

_map_wh(w) ==
    LET place == IntOr0(w, "PlaceMaxWeightAllowed")
        total == IntOr0(w, "TotalMaxWeightAllowed")
    IN  [number |-> IntOr0(w, "Number"),
         address_ref |-> Get(w, "Ref", None),
         address |-> Get(w, "Description", None),
         index |-> Get(w, "WarehouseIndex", None),
         city_ref |-> Get(w, "CityRef", None),
         city |-> Get(w, "CityDescription", None),
         max_weight_allowed |-> IF total # 0 THEN total ELSE place,
         max_weight_allowed_place |-> place,
         max_weight_allowed_total |-> total]

\* size = max(1, int(size or 1)); math.ceil(total / size)
_ceil(total, size) == CeilDiv(total, Max(1, IF size = 0 THEN 1 ELSE size))

\* (x.get("Description") or "")
DescriptionOrEmpty(x) ==
    LET d == Get(x, "Description", None) IN IF d = None THEN <<>> ELSE d

\* ExactIndex comparing the texts as they are, without lower()
ExactIndexCaseSensitive(data, city) ==
    LET hits == {i \in 1..Len(data) : DescriptionOrEmpty(data[i]) = city}
    IN  IF hits = {} THEN 0 ELSE CHOOSE i \in hits : \A j \in hits : i <= j

\* index of the first item whose description equals the query ignoring case,
\* 0 when next(...) yields None
ExactIndex(data, city) ==
    LET hits == {i \in 1..Len(data) : Lower(DescriptionOrEmpty(data[i])) = Lower(city)}
    IN  IF hits = {} THEN 0 ELSE CHOOSE i \in hits : \A j \in hits : i <= j

\* "if exact": exact is not None and is not the empty dict
ExactTruthy(data, city) ==
    ExactIndex(data, city) # 0 /\ DOMAIN data[ExactIndex(data, city)] # {}

CityNotFound(city) == <<"City named \"">> \o city \o <<"\" is not found">>

find_city_by_name(city, limit, page, reply) ==
    LET res == _post(reply)
        chk == _list_ok(res, CityNotFound(city))
    IN  IF ~StatusOf(chk) THEN chk
        ELSE LET data   == chk.data
                 exact  == ExactTruthy(data, city)
                 cities == IF exact THEN <<_map_city(data[ExactIndex(data, city)])>>
                           ELSE [i \in 1..Len(data) |-> _map_city(data[i])]
                 tc     == Get(Get(chk, "info", EmptyDict), "totalCount", 0)
                 total  == IF exact THEN 1 ELSE IF tc # 0 THEN tc ELSE Len(cities)
             IN  [status |-> TRUE, status_code |-> OK, cities |-> cities,
                  total |-> total, total_pages |-> _ceil(total, limit),
                  total_in_page |-> Len(cities), current_page |-> page]

\* props of find_warehouse_in_city; a holds the arguments, an absent
\* warehouse_number is None
WarehouseProps(a) ==
    [Limit |-> a.limit, Page |-> a.page]
    @@ (IF a.city_ref # None /\ a.city_ref # <<>> THEN [CityRef |-> a.city_ref] ELSE EmptyDict)
    @@ (IF Has(a, "warehouse_number") THEN [WarehouseId |-> a.warehouse_number] ELSE EmptyDict)
    @@ (IF a.warehouse_string # None /\ a.warehouse_string # <<>>
        THEN [FindByString |-> a.warehouse_string] ELSE EmptyDict)

WarehouseNotFound(a) ==
    LET label_city == IF a.city # <<>> THEN <<" in \"">> \o a.city \o <<"\"">> ELSE <<>>
        label_wh   == IF Has(a, "warehouse_number")
                      THEN <<"#">> \o Str(a.warehouse_number) ELSE <<>>
    IN  <<"Warehouse ">> \o label_wh \o <<" is not found">> \o label_city

\* a list and a mapping under the same key are told apart by their tag
PyList(xs) == [list |-> xs]
PyDict(d)  == [dict |-> d]
IsList(v)  == Has(v, "list")
IsDict(v)  == Has(v, "dict")

find_warehouse_in_city(a, reply) ==
    LET res == _post(reply)
        chk == _list_ok(res, WarehouseNotFound(a))
    IN  IF ~StatusOf(chk) THEN chk
        ELSE LET data  == chk.data
                 total == Get(Get(chk, "info", EmptyDict), "totalCount", Len(data))
             IN  IF total <= 1 /\ data # <<>>
                 THEN [status |-> TRUE, status_code |-> OK,
                       warehouses |-> PyDict(_map_wh(data[1])),
                       total |-> total, total_pages |-> 1,
                       total_in_page |-> 1, current_page |-> 1]
                 ELSE [status |-> TRUE, status_code |-> OK,
                       warehouses |-> PyList([i \in 1..Len(data) |-> _map_wh(data[i])]),
                       total |-> total, total_pages |-> _ceil(total, a.limit),
                       total_in_page |-> Len(data), current_page |-> a.page]

AgentsNotFound(property) == <<"Agents by \"", property, "\" property is not found">>

find_agents_by_property(property, page, reply) ==
    LET res == _post(reply)
        chk == _list_ok(res, AgentsNotFound(property))
    IN  IF ~StatusOf(chk) THEN chk
        ELSE [status |-> TRUE, status_code |-> OK, agents |-> chk.data,
              total |-> Get(Get(chk, "info", EmptyDict), "totalCount", Len(chk.data))]

----------------------------------------------------------------------------
(* Inputs of the list operations *)

\* a few failed bodies for the operations that do not look at the message
FewFailedBodies ==
    {EmptyDict, [success |-> FALSE],
     [success |-> FALSE, errors |-> <<<<"API key">>, <<"Invalid">>>>]}

Infos == Opt("totalCount", 0..MaxTotal)

ListBodies(items) == FewFailedBodies \cup OkBodies(SeqUpTo(items, MaxItems), Infos)

Queries   == {<<>>, <<"K", "y">>, <<"k", "Y">>}
CityItems ==
    {EmptyDict,
     [Ref |-> <<"c1">>, Description |-> <<"K", "Y">>],
     [Ref |-> <<"c2">>, Description |-> <<"K", "y", "i", "v">>],
     [Ref |-> <<"c3">>]}

WarehouseItems ==
    {EmptyDict,
     [Ref |-> <<"w1">>, Number |-> 1, Description |-> <<"Branch 1">>,
      TotalMaxWeightAllowed |-> 0, PlaceMaxWeightAllowed |-> 2],
     [Ref |-> <<"w2">>, Number |-> 2, Description |-> <<POST_MACHINE, " 2">>,
      TotalMaxWeightAllowed |-> 1]}

AgentItems ==
    {[Ref |-> <<"a1">>, Description |-> <<"Agent 1">>],
     [Ref |-> <<"a2">>, Description |-> <<"Agent 2">>, City |-> <<"c1">>]}

Limits == 0..MaxLimit
Pages  == 1..MaxPage

WarehouseArgs ==
    { [city_ref |-> cr, warehouse_string |-> ws, city |-> c, limit |-> l, page |-> p] @@ n :
        cr \in {None, <<"c1">>}, ws \in {None, <<"Branch">>}, c \in {<<>>, <<"K", "y">>},
        l \in Limits, p \in Pages, n \in Opt("warehouse_number", 0..1) }

FindCityByName ==
    /\ pc = "idle"
    /\ \E city \in Queries, limit \in Limits, page \in Pages,
          reply \in Outcomes(ListBodies(CityItems)) :
          Returned("find_city_by_name", [city |-> city, limit |-> limit, page |-> page],
                   <<Payload("Address", "getCities",
                             [FindByString |-> city, Limit |-> limit, Page |-> page])>>,
                   <<reply>>, find_city_by_name(city, limit, page, reply))

FindWarehouseInCity ==
    /\ pc = "idle"
    /\ \E a \in WarehouseArgs, reply \in Outcomes(ListBodies(WarehouseItems)) :
          Returned("find_warehouse_in_city", a,
                   <<Payload("AddressGeneral", "getWarehouses", WarehouseProps(a))>>,
                   <<reply>>, find_warehouse_in_city(a, reply))

FindAgentsByProperty ==
    /\ pc = "idle"
    /\ \E property \in {SENDER, RECIPIENT}, page \in Pages,
          reply \in Outcomes(ListBodies(AgentItems)) :
          Returned("find_agents_by_property", [property |-> property, page |-> page],
                   <<Payload("Counterparty", "getCounterparties",
                             [CounterpartyProperty |-> property, Page |-> page])>>,
                   <<reply>>, find_agents_by_property(property, page, reply))

----------------------------------------------------------------------------
(* Waybill operations *)

\* "not x.max_weight_allowed": None (the field is absent) or zero
NoMaxWeight(party) == ~Has(party, "max_weight_allowed") \/ party.max_weight_allowed = 0

set_additional_parameters(sender, receiver, specified_weight, cargo_type, backward_delivery, backward_amount, payer_type) ==
    LET machine == Contains(sender.address, POST_MACHINE)
                   \/ Contains(receiver.address, POST_MACHINE)
    IN  [options_seat |->
            IF machine
            THEN <<[volumetricVolume |-> <<"1">>, volumetricWidth |-> <<"40">>,
                    volumetricLength |-> <<"40">>, volumetricHeight |-> <<"30">>,
                    weight |-> Str(specified_weight)]>>
            ELSE None,
         cargo_type |-> IF machine THEN PARCEL ELSE cargo_type,
         backward_delivery_data |->
            IF backward_delivery
            THEN <<[PayerType |-> payer_type, CargoType |-> MONEY,
                    RedeliveryString |-> backward_amount]>>
            ELSE None]

\* date.strftime("%d.%m.%Y")
Pad2(n) == IF n < 10 THEN "0" \o ToString(n) ELSE ToString(n)
Strftime(date) == <<Pad2(date.day), ".", Pad2(date.month), ".", ToString(date.year)>>

\* the fallback description (a Ukrainian text in the source, transliterated)
DefaultDescription == <<"Dostavka u viddilennia">>

\* WeightChecks without the comparison against the receiver's maximum
WeightChecksSenderOnly(a) ==
    IF NoMaxWeight(a.sender) \/ NoMaxWeight(a.receiver)
    THEN [status |-> FALSE, status_code |-> 400, error |-> <<"Invalid max weight">>]
    ELSE IF a.specified_weight > a.sender.max_weight_allowed
    THEN [status |-> FALSE, status_code |-> 400,
          error |-> <<"Too much specified weight (sender)">>]
    ELSE EmptyDict

\* the local checks at the top of create_waybill: the envelope returned
\* before any request is built, EmptyDict when the checks pass
WeightChecks(a) ==
    IF NoMaxWeight(a.sender) \/ NoMaxWeight(a.receiver)
    THEN [status |-> FALSE, status_code |-> 400, error |-> <<"Invalid max weight">>]
    ELSE IF a.specified_weight > a.sender.max_weight_allowed
    THEN [status |-> FALSE, status_code |-> 400,
          error |-> <<"Too much specified weight (sender)">>]
    ELSE IF a.specified_weight > a.receiver.max_weight_allowed
    THEN [status |-> FALSE, status_code |-> 400,
          error |-> <<"Too much specified weight (receiver)">>]
    ELSE EmptyDict

\* PaymentKeys comparing the payment method without regard to letter case
PaymentKeysAnyCase(payment_method, ap, postpaid_amount) ==
    IF payment_method \in {CASH, "cash"}
    THEN [BackwardDeliveryData |-> ap.backward_delivery_data]
    ELSE [AfterpaymentOnGoodsCost |-> Str(postpaid_amount)]

\* the keys create_waybill and update_waybill add after the common block
PaymentKeys(payment_method, ap, postpaid_amount) ==
    IF payment_method = CASH
    THEN [BackwardDeliveryData |-> ap.backward_delivery_data]
    ELSE [AfterpaymentOnGoodsCost |-> Str(postpaid_amount)]

CreateWaybillProps(a) ==
    LET ap == set_additional_parameters(a.sender, a.receiver, a.specified_weight,
                  a.cargo_type, a.with_backward_delivery, Str(a.backward_amount),
                  a.payer_type)
    IN  [PayerType |-> a.payer_type,
         PaymentMethod |-> a.payment_method,
         DateTime |-> Strftime(a.delivery_date),
         CargoType |-> ap.cargo_type,
         Weight |-> Str(a.specified_weight),
         ServiceType |-> WAREHOUSE_WAREHOUSE,
         SeatsAmount |-> a.goods_count,
         Description |-> IF a.comment # <<>> THEN a.comment ELSE DefaultDescription,
         Cost |-> a.declared_price,
         CitySender |-> a.sender.city_identifier,
         Sender |-> a.sender.agent_identifier,
         SenderAddress |-> a.sender.address_identifier,
         ContactSender |-> a.sender.agent_contact_identifier,
         SendersPhone |-> a.sender.phone,
         RecipientsPhone |-> a.receiver.delivery_receiver.phone,
         CityRecipient |-> a.receiver.city_identifier,
         Recipient |-> a.receiver.agent_identifier,
         RecipientAddress |-> a.receiver.address_identifier,
         ContactRecipient |-> a.receiver.agent_contact_identifier,
         OptionsSeat |-> ap.options_seat]
        @@ PaymentKeys(a.payment_method, ap, a.postpaid_amount)

\* DeliveryInfo.get_payment_method_display
get_payment_method_display(delivery) == NON_CASH

\* np is the NovaPoshta aggregate
UpdateWaybillProps(np, goods_count) ==
    LET ap == set_additional_parameters(np.sender, np.receiver, np.specified_weight,
                  CARGO, np.with_backward_delivery, Str(np.backward_amount),
                  np.delivery.payer)
        pm == get_payment_method_display(np.delivery)
    IN  [Ref |-> np.delivery_identifier,
         PayerType |-> np.delivery.payer,
         PaymentMethod |-> pm,
         DateTime |-> Strftime(np.delivery_date),
         CargoType |-> ap.cargo_type,
         Weight |-> Str(np.specified_weight),
         ServiceType |-> WAREHOUSE_WAREHOUSE,
         SeatsAmount |-> goods_count,
         Description |-> IF np.delivery.comment # <<>> THEN np.delivery.comment
                         ELSE DefaultDescription,
         Cost |-> Str(np.delivery.estimate_order_price),
         CitySender |-> np.sender.city_identifier,
         Sender |-> np.sender.agent_identifier,
         SenderAddress |-> np.sender.address_identifier,
         ContactSender |-> np.sender.agent_contact_identifier,
         SendersPhone |-> np.sender.phone,
         RecipientsPhone |-> np.receiver.delivery_receiver.phone,
         CityRecipient |-> np.receiver.city_identifier,
         Recipient |-> np.receiver.agent_identifier,
         RecipientAddress |-> np.receiver.address_identifier,
         ContactRecipient |-> np.receiver.agent_contact_identifier,
         VolumeGeneral |-> None]
        @@ PaymentKeys(pm, ap, np.postpaid_amount)

\* the reshaped tracking record of waybill_status
waybill_status(reply) ==
    LET res == _post(reply)
    IN  IF ~StatusOf(res) THEN res
        ELSE LET data == Get(res, "data", <<>>)
                 d    == IF data = <<>> THEN EmptyDict ELSE data[1]
             IN  [status |-> TRUE,
                  status_code |-> Get(res, "status_code", 200),
                  document |->
                     [ref |-> Get(d, "RefEW", None),
                      ttn |-> Get(d, "Number", None),
                      status_code |-> Get(d, "StatusCode", 0),
                      status_description |-> Get(d, "Status", None),
                      last_scan_date |-> Get(d, "DateScan", None),
                      last_tracking_date |-> Get(d, "TrackingUpdateDate", None)]]

----------------------------------------------------------------------------
(* Inputs of the waybill operations *)

Weights == -1..MaxWeight

Addresses == {<<"Branch 1">>, <<POST_MACHINE, " 2">>}

Senders ==
    { [city_identifier |-> <<"c1">>, agent_identifier |-> <<"a1">>,
       address_identifier |-> <<"w1">>, agent_contact_identifier |-> <<"p1">>,
       phone |-> <<"380501112233">>, address |-> ad, department_number |-> 1] @@ m :
        ad \in Addresses, m \in Opt("max_weight_allowed", Weights) }

Receivers ==
    { [city_identifier |-> <<"c2">>, agent_identifier |-> <<"a2">>,
       address_identifier |-> <<"w2">>, agent_contact_identifier |-> <<"p2">>,
       address |-> ad, department_number |-> 2,
       delivery_receiver |-> [phone |-> <<"380504445566">>]] @@ m :
        ad \in Addresses, m \in Opt("max_weight_allowed", Weights) }

Dates == {[day |-> 5, month |-> 11, year |-> 2025]}

PaymentMethods == {CASH, NON_CASH, "cash"}

CreateWaybillArgs ==
    { [sender |-> s, receiver |-> r, declared_price |-> <<"100">>, delivery_date |-> d,
       specified_weight |-> w, payment_method |-> pm, payer_type |-> SENDER,
       cargo_type |-> CARGO, comment |-> c, goods_count |-> 1,
       with_backward_delivery |-> b, backward_amount |-> 0, postpaid_amount |-> 0] :
        s \in Senders, r \in Receivers, d \in Dates, w \in Weights,
        pm \in PaymentMethods, c \in {<<>>, <<"fragile">>}, b \in BOOLEAN }

Shipments ==
    { [sender |-> s, receiver |-> r, specified_weight |-> w,
       with_backward_delivery |-> b, backward_amount |-> 0, postpaid_amount |-> 0,
       delivery_identifier |-> <<"doc1">>, delivery_date |-> d,
       delivery |-> [ttn |-> <<"20400000000001">>, estimate_order_price |-> 100,
                     payer |-> p, comment |-> <<>>]] :
        s \in Senders, r \in Receivers, w \in Weights, b \in BOOLEAN, d \in Dates,
        p \in {SENDER, RECIPIENT} }

\* replies to a document request
DocumentOutcomes ==
    {[kind |-> "network"],
     [kind |-> "response", code |-> 500, json |-> FALSE],
     [kind |-> "response", code |-> 200, json |-> TRUE, body |-> [success |-> FALSE]],
     [kind |-> "response", code |-> 200, json |-> TRUE,
      body |-> [success |-> TRUE, data |-> <<[Ref |-> <<"doc1">>]>>]]}

CreateWaybill ==
    /\ pc = "idle"
    /\ \E a \in CreateWaybillArgs :
          IF DOMAIN WeightChecks(a) # {}
          THEN Returned("create_waybill", a, <<>>, <<>>, WeightChecks(a))
          ELSE \E reply \in DocumentOutcomes :
                  Returned("create_waybill", a,
                           <<Payload("InternetDocument", "save", CreateWaybillProps(a))>>,
                           <<reply>>, _post(reply))

UpdateWaybill ==
    /\ pc = "idle"
    /\ \E np \in Shipments, reply \in DocumentOutcomes :
          Returned("update_waybill", [nova_poshta |-> np, goods_count |-> 1],
                   <<Payload("InternetDocument", "update", UpdateWaybillProps(np, 1))>>,
                   <<reply>>, _post(reply))

TrackingItems ==
    {EmptyDict,
     [RefEW |-> <<"doc1">>, Number |-> <<"20400000000001">>, StatusCode |-> 9,
      Status |-> <<"Received">>]}

WaybillStatus ==
    /\ pc = "idle"
    /\ \E ttn \in {<<"20400000000001">>},
          reply \in Outcomes(ListBodies(TrackingItems)) :
          Returned("waybill_status", [ttn |-> ttn],
                   <<Payload("TrackingDocument", "getStatusDocuments",
                             [Documents |-> <<[DocumentNumber |-> ttn]>>])>>,
                   <<reply>>, waybill_status(reply))

----------------------------------------------------------------------------
(* get_sender_data: one counterparty list call, then one contact-persons   *)
(* call per listed sender.  Each action is the handler up to and including *)
(* its next request and the handling of the reply.                         *)

\* the record appended to out for sender s and its contact reply
SenderRecord(s, contacts) ==
    LET data == Get(contacts, "data", <<>>)
        c0   == IF data = <<>> THEN EmptyDict ELSE data[1]
    IN  [agent_ref |-> Get(s, "Ref", None),
         agent_description |-> Get(s, "Description", None),
         agent_type |-> Get(s, "CounterpartyType", None),
         agent_edrpou |-> Get(s, "EDRPOU", None),
         agent_city_ref |-> Get(s, "City", None),
         agent_city |-> Get(s, "CityDescription", None),
         contact_ref |-> Get(c0, "Ref", None),
         first_name |-> Get(c0, "FirstName", None),
         last_name |-> Get(c0, "LastName", None),
         middle_name |-> Get(c0, "MiddleName", None),
         phone |-> Get(c0, "Phones", None),
         email |-> Get(c0, "Email", None)]

\* the envelope returned after the loop
SenderData(listed, records) ==
    [status |-> TRUE, status_code |-> OK, senders |-> records,
     total |-> Get(listed, "total", Len(records))]

ContactItems ==
    {[Ref |-> <<"p1">>, FirstName |-> <<"Ivan">>, LastName |-> <<"Franko">>],
     [Ref |-> <<"p2">>, FirstName |-> <<"Lesia">>, LastName |-> <<"Ukrainka">>,
      MiddleName |-> <<"Petrivna">>]}

ContactOutcomes ==
    {[kind |-> "network"],
     [kind |-> "response", code |-> 404, json |-> FALSE],
     [kind |-> "response", code |-> 200, json |-> FALSE]}
    \cup { [kind |-> "response", code |-> 200, json |-> TRUE, body |-> b] :
             b \in {[success |-> FALSE]} \cup OkBodies(SeqUpTo(ContactItems, 1), {}) }

\* the loop skipping a failed contact lookup instead of returning it
ContactFailedIgnored(contacts) == FALSE

\* if not contacts.get("status"): return contacts
ContactFailed(contacts) == ~StatusOf(contacts)

\* senders = self.find_agents_by_property(property=PersonProperty.SENDER)
GetSenderDataList ==
    /\ pc = "idle"
    /\ \E reply \in Outcomes(ListBodies(AgentItems)) :
          LET listed == find_agents_by_property(SENDER, 1, reply)
          IN  /\ op' = "get_sender_data"
              /\ args' = EmptyDict
              /\ calls' = <<Payload("Counterparty", "getCounterparties",
                                    [CounterpartyProperty |-> SENDER, Page |-> 1])>>
              /\ replies' = <<reply>>
              /\ senders' = listed
              /\ out' = <<>>
              /\ IF ~StatusOf(listed)
                 THEN result' = listed /\ pc' = "returned"
                 ELSE result' = EmptyDict /\ pc' = "contacts"

\* one iteration of "for s in senders.get('agents', [])", and the return
\* that follows the last one
GetSenderDataContact ==
    /\ pc = "contacts"
    /\ LET agents == Get(senders, "agents", <<>>)
           s      == agents[Len(out) + 1]
       IN  \E reply \in ContactOutcomes :
              LET contacts == _post(reply)
                  records  == Append(out, SenderRecord(s, contacts))
              IN  /\ calls' = Append(calls,
                         Payload("Counterparty", "getCounterpartyContactPersons",
                                 [Ref |-> s.Ref]))
                  /\ replies' = Append(replies, reply)
                  /\ IF ContactFailed(contacts)
                     THEN result' = contacts /\ pc' = "returned" /\ out' = out
                     ELSE IF Len(records) < Len(agents)
                     THEN result' = result /\ pc' = "contacts" /\ out' = records
                     ELSE /\ result' = SenderData(senders, records)
                          /\ pc' = "returned"
                          /\ out' = records
    /\ UNCHANGED <<op, args, senders>>

----------------------------------------------------------------------------
(* find_sender_by_full_name: a lookup in a list fetched earlier            *)

\* whitespace chunks, removed by str.strip() at both ends
Whitespace == {" "}

RECURSIVE StripLeft(_)
StripLeft(s) ==
    IF s # <<>> /\ Head(s) \in Whitespace THEN StripLeft(Tail(s)) ELSE s

RECURSIVE StripRight(_)
StripRight(s) ==
    IF s # <<>> /\ s[Len(s)] \in Whitespace THEN StripRight(SubSeq(s, 1, Len(s) - 1)) ELSE s

\* str.strip()
Strip(s) == StripRight(StripLeft(s))

\* (d.get(k) or "").strip().lower()
StoredPart(d, k) ==
    LET v == Get(d, k, None) IN Lower(Strip(IF v = None THEN <<>> ELSE v))

\* the key of an entry in idx
StoredKey(d) ==
    <<StoredPart(d, "first_name"), StoredPart(d, "last_name"), StoredPart(d, "middle_name")>>

\* the position idx keeps for a key when the first entry is never overwritten
KeptPositionFirstWins(data, key) ==
    LET at == {i \in 1..Len(data) : StoredKey(data[i]) = key}
    IN  IF at = {} THEN 0 ELSE CHOOSE i \in at : \A j \in at : i <= j

\* the position in data of the entry the dict comprehension keeps under key
\* (a later entry overwrites an earlier one), 0 when the key is not in idx
KeptPosition(data, key) ==
    LET at == {i \in 1..Len(data) : StoredKey(data[i]) = key}
    IN  IF at = {} THEN 0 ELSE CHOOSE i \in at : \A j \in at : i >= j

\* the absent result of idx.get
NoEntry == [none |-> TRUE]

\* idx.get((first_name.strip().lower(), last_name.strip().lower(), middle_name.strip().lower()))
find_sender_by_full_name(first_name, last_name, middle_name, data) ==
    LET key == <<Lower(Strip(first_name)), Lower(Strip(last_name)), Lower(Strip(middle_name))>>
        i   == KeptPosition(data, key)
    IN  IF i = 0 THEN NoEntry ELSE PyDict(data[i])

SenderEntries ==
    { [first_name |-> f, last_name |-> l] @@ m :
        f \in {<<"I">>, <<" ", "i", " ">>, <<"K">>},
        l \in {<<"K">>, <<"k">>},
        m \in Opt("middle_name", {<<>>, <<"Y">>}) }

LookupArgs ==
    { [first_name |-> f, last_name |-> l, middle_name |-> m, data |-> d] :
        f \in {<<"i">>, <<"I", " ">>, <<"I", " ", "K">>},
        l \in {<<" ", "K">>},
        m \in {<<>>, <<"y">>},
        d \in SeqUpTo(SenderEntries, MaxItems) }

\* the caller holds the arguments of the lookup
InitLookup ==
    /\ op = "none"
    /\ args \in LookupArgs
    /\ calls = <<>>
    /\ replies = <<>>
    /\ result = EmptyDict
    /\ pc = "idle"
    /\ senders = EmptyDict
    /\ out = <<>>

FindSenderByFullName ==
    /\ pc = "idle"
    /\ op' = "find_sender_by_full_name"
    /\ result' = find_sender_by_full_name(args.first_name, args.last_name,
                                          args.middle_name, args.data)
    /\ pc' = "returned"
    /\ UNCHANGED <<args, calls, replies, senders, out>>

NextLookup == FindSenderByFullName

SpecLookup == InitLookup /\ [][NextLookup]_vars

----------------------------------------------------------------------------

Init ==
    /\ op = "none"
    /\ args = EmptyDict
    /\ calls = <<>>
    /\ replies = <<>>
    /\ result = EmptyDict
    /\ pc = "idle"
    /\ senders = EmptyDict
    /\ out = <<>>

Next ==
    \/ delete_waybill
    \/ FindCityByName
    \/ FindWarehouseInCity
    \/ FindAgentsByProperty
    \/ CreateWaybill
    \/ UpdateWaybill
    \/ WaybillStatus
    \/ GetSenderDataList
    \/ GetSenderDataContact

Spec == Init /\ [][Next]_vars

----------------------------------------------------------------------------
(* Properties *)

Done(name) == op = name /\ pc = "returned"

\* the reply handled last by the call
LastReply == replies[Len(replies)]

IsResponse(r) == r.kind = "response"

\* a status code of the 2xx class
Is2xx(code) == 200 <= code /\ code < 300

ResourceKeys == {"data", "info", "cities", "warehouses", "agents", "senders", "document"}

\* C1: whatever the operation, when the last reply of the call is a response
\* with a non-2xx code the returned envelope has status false and carries
\* that code, and when it is a failure without a response (or an HTTP error
\* without a code) the envelope has status false and status_code 400.
C1_TransportFailuresAreValues ==
    (pc = "returned" /\ replies # <<>>) =>
        /\ (IsResponse(LastReply) /\ ~Is2xx(LastReply.code)) =>
              (result.status = FALSE /\ result.status_code = LastReply.code)
        /\ (~IsResponse(LastReply)) =>
              (result.status = FALSE /\ result.status_code = 400)

\* the text the claim expects under error
C2_ExpectedError(body) ==
    LET e == Join(<<"; ">>, IF Has(body, "errors") THEN body.errors ELSE <<>>)
        m == Join(<<"; ">>, IF Has(body, "messageCodes") THEN body.messageCodes ELSE <<>>)
    IN  IF Len(e) > 0 THEN e ELSE IF Len(m) > 0 THEN m ELSE <<"API error">>

\* the text names the API key and says, in any letter case, that it is invalid
C2_IndicatesInvalidKey(msg) ==
    /\ \E i \in 1..Len(msg) : msg[i] = "API key"
    /\ \E i \in 1..Len(msg) : msg[i] \in {"invalid", "Invalid", "INVALID"}

C2_Case ==
    /\ pc = "returned" /\ replies # <<>>
    /\ IsResponse(LastReply) /\ Is2xx(LastReply.code) /\ LastReply.json
    /\ (~Has(LastReply.body, "success") \/ LastReply.body.success = FALSE)

\* C2: a 2xx reply whose body has success false, or no success flag, gives
\* status false, the body under raw, error the joined errors if that text is
\* not empty, else the joined messageCodes if not empty, else "API error",
\* and status_code 401 exactly when the text indicates an invalid API key,
\* 400 otherwise.
C2_UpstreamFailureEnvelope ==
    C2_Case =>
        /\ DOMAIN result = {"status", "status_code", "error", "raw"}
        /\ result.status = FALSE
        /\ result.raw = LastReply.body
        /\ result.error = C2_ExpectedError(LastReply.body)
        /\ result.status_code = IF C2_IndicatesInvalidKey(result.error) THEN 401 ELSE 400

C2_Witness ==
    /\ C2_Case
    /\ Has(LastReply.body, "errors") /\ Len(LastReply.body.errors) = 2
    /\ result.status_code = 401
    /\ Contains(result.error, "Invalid")

\* C3: an envelope returned with status false carries no resource key.
C3_NoPartialSuccess ==
    (pc = "returned" /\ result.status = FALSE) =>
        DOMAIN result \cap ResourceKeys = {}

\* the call to the upstream succeeded: _post returned a true status
UpstreamOk(r) == StatusOf(_post(r))

\* the data array the upstream sent, empty when it sent none
UpstreamData(r) == Get(r.body, "data", <<>>)

ListOperations == {"find_city_by_name", "find_warehouse_in_city", "find_agents_by_property"}

\* the not-found message of the list operation that was called
C4_OwnMessage ==
    CASE op = "find_city_by_name"       -> CityNotFound(args.city)
      [] op = "find_warehouse_in_city"  -> WarehouseNotFound(args)
      [] op = "find_agents_by_property" -> AgentsNotFound(args.property)

C4_Case ==
    /\ op \in ListOperations /\ pc = "returned"
    /\ UpstreamOk(replies[1])
    /\ UpstreamData(replies[1]) = <<>>

\* C4: each of the three list operations, when the upstream call succeeds
\* with an empty or missing data array, returns exactly status false,
\* status_code 404 and its own not-found message, and nothing else.
C4_EmptyListIsNotFound ==
    C4_Case =>
        result = [status |-> FALSE, status_code |-> 404, error |-> C4_OwnMessage]

C4_Witness ==
    /\ C4_Case
    /\ op = "find_warehouse_in_city"
    /\ Has(replies[1].body, "data")
    /\ Has(args, "warehouse_number") /\ args.city # <<>>
    /\ result.status_code = 404

\* positions of the upstream items that have a Description equal to the
\* query when letter case is ignored
C5_Matches ==
    {i \in 1..Len(UpstreamData(replies[1])) :
        /\ Has(UpstreamData(replies[1])[i], "Description")
        /\ Lower(UpstreamData(replies[1])[i].Description) = Lower(args.city)}

C5_Case ==
    /\ Done("find_city_by_name")
    /\ UpstreamOk(replies[1])
    /\ C5_Matches # {}

C6_ReportedTotal ==
    IF Has(replies[1].body, "info") /\ Has(replies[1].body.info, "totalCount")
    THEN replies[1].body.info.totalCount
    ELSE Len(UpstreamData(replies[1]))

C6_Case ==
    /\ Done("find_warehouse_in_city")
    /\ UpstreamOk(replies[1])
    /\ UpstreamData(replies[1]) # <<>>

\* C6: find_warehouse_in_city, when the reported total is <= 1 and an item
\* was returned, puts a single mapping (the mapped first item) under
\* warehouses with total 1 and total_pages 1; in every other successful case
\* warehouses is a list.
C6_SingleWarehouseCollapses ==
    C6_Case =>
        IF C6_ReportedTotal <= 1
        THEN /\ IsDict(result.warehouses)
             /\ result.warehouses.dict = _map_wh(UpstreamData(replies[1])[1])
             /\ result.total = 1
             /\ result.total_pages = 1
        ELSE IsList(result.warehouses)

\* a maximum weight that is set
MaxOf(party) == party.max_weight_allowed

C7_Case ==
    /\ Done("create_waybill")
    /\ \/ Has(args.sender, "max_weight_allowed")
          /\ args.specified_weight > MaxOf(args.sender)
       \/ Has(args.receiver, "max_weight_allowed")
          /\ args.specified_weight > MaxOf(args.receiver)

\* C7: create_waybill with a specified weight above the sender's or the
\* receiver's maximum returns status false, status_code 400 and posts
\* nothing, whatever the other arguments are.
C7_OverweightIsRejectedLocally ==
    C7_Case =>
        /\ result.status = FALSE
        /\ result.status_code = 400
        /\ calls = <<>>

C7_Witness ==
    /\ C7_Case
    /\ Has(args.sender, "max_weight_allowed") /\ Has(args.receiver, "max_weight_allowed")
    /\ MaxOf(args.sender) > 0
    /\ args.specified_weight <= MaxOf(args.sender)
    /\ MaxOf(args.receiver) > 0
    /\ args.specified_weight > MaxOf(args.receiver)
    /\ result.error = <<"Too much specified weight (receiver)">>
    /\ calls = <<>>

\* the maximum weight is zero, negative or unset
C8_NotPositive(party) == ~Has(party, "max_weight_allowed") \/ MaxOf(party) <= 0

\* C8: create_waybill, whenever the sender's or the receiver's maximum
\* weight is not positive, returns status false, status_code 400 and the
\* error "Invalid max weight", and posts nothing.
C8_NonPositiveMaxIsInvalid ==
    (Done("create_waybill") /\ (C8_NotPositive(args.sender) \/ C8_NotPositive(args.receiver))) =>
        /\ result = [status |-> FALSE, status_code |-> 400, error |-> <<"Invalid max weight">>]
        /\ calls = <<>>

\* the InternetDocument requests create_waybill and update_waybill posted
C9_Requests ==
    {i \in 1..Len(calls) : calls[i].modelName = "InternetDocument"
                           /\ calls[i].calledMethod \in {"save", "update"}}

\* C9: every request of create_waybill or update_waybill has exactly one of
\* BackwardDeliveryData and AfterpaymentOnGoodsCost, BackwardDeliveryData
\* exactly when its PaymentMethod is "Cash"; a request of update_waybill has
\* PaymentMethod "NonCash" and so always AfterpaymentOnGoodsCost.
C9_PaymentKeysExclusive ==
    \A i \in C9_Requests :
        LET props == calls[i].methodProperties
        IN  /\ Has(props, "BackwardDeliveryData") # Has(props, "AfterpaymentOnGoodsCost")
            /\ Has(props, "BackwardDeliveryData") <=> (props.PaymentMethod = "Cash")
            /\ calls[i].calledMethod = "update" =>
                  /\ props.PaymentMethod = "NonCash"
                  /\ Has(props, "AfterpaymentOnGoodsCost")
                  /\ ~Has(props, "BackwardDeliveryData")

C9_Witness ==
    /\ Done("create_waybill")
    /\ C9_Requests = {1}
    /\ calls[1].methodProperties.PaymentMethod = "Cash"
    /\ args.with_backward_delivery
    /\ Has(calls[1].methodProperties, "BackwardDeliveryData")
    /\ ~Has(calls[1].methodProperties, "AfterpaymentOnGoodsCost")

\* get_sender_data: the envelope of the counterparty list call
C10_Listed == find_agents_by_property(SENDER, 1, replies[1])

\* get_sender_data: the i-th call (1 is the list call) succeeded
C10_Succeeded(i) ==
    IF i = 1 THEN StatusOf(C10_Listed) ELSE StatusOf(_post(replies[i]))

\* C10: get_sender_data is fail-fast.  No call is issued after a failed one;
\* a call is the list call or the contact call of the next listed sender, in
\* list order; the call that returns a failure returns exactly the envelope
\* of its last call, which failed and has no senders of the aggregation; it
\* returns status true only when the list call and one contact call per
\* listed sender all succeeded, with one record per listed sender in order.
C10_FailFast ==
    (op = "get_sender_data") =>
        /\ Len(calls) = Len(replies)
        /\ \A i \in 1..(Len(replies) - 1) : C10_Succeeded(i)
        /\ \A i \in 2..Len(calls) :
              /\ calls[i].calledMethod = "getCounterpartyContactPersons"
              /\ calls[i].methodProperties.Ref = C10_Listed.agents[i - 1].Ref
        /\ (pc = "returned" /\ ~C10_Succeeded(Len(replies))) =>
              /\ result = (IF Len(replies) = 1 THEN C10_Listed ELSE _post(LastReply))
              /\ ~Has(result, "senders")
        /\ (pc = "returned" /\ C10_Succeeded(Len(replies))) =>
              /\ result.status = TRUE
              /\ Len(replies) = Len(C10_Listed.agents) + 1
              /\ Len(result.senders) = Len(C10_Listed.agents)
              /\ \A k \in 1..Len(result.senders) :
                    result.senders[k].agent_ref = C10_Listed.agents[k].Ref
        /\ (pc = "returned" /\ StatusOf(result)) =>
              \A i \in 1..Len(replies) : C10_Succeeded(i)

\* the second contact call is the first call to fail
C10_Witness ==
    /\ Done("get_sender_data")
    /\ Len(replies) = 3
    /\ C10_Succeeded(1) /\ C10_Succeeded(2) /\ ~C10_Succeeded(3)
    /\ Len(C10_Listed.agents) = 2
    /\ result = _post(replies[3])
    /\ result.status = FALSE
    /\ Len(out) = 1

\* text a with the whitespace at both ends dropped and the case ignored
C11_Normal(a) == Lower(Strip(a))

\* the stored text of part k of entry d, an unset part being the empty text
C11_Stored(d, k) == IF Has(d, k) /\ d[k] # None THEN d[k] ELSE <<>>

\* positions of the entries of data whose three parts equal the query's
C11_Matches ==
    {i \in 1..Len(args.data) :
        /\ C11_Normal(C11_Stored(args.data[i], "first_name")) = C11_Normal(args.first_name)
        /\ C11_Normal(C11_Stored(args.data[i], "last_name")) = C11_Normal(args.last_name)
        /\ C11_Normal(C11_Stored(args.data[i], "middle_name")) = C11_Normal(args.middle_name)}

\* C11: find_sender_by_full_name posts nothing; it returns no entry exactly
\* when no entry of data equals the query in all three name parts after
\* trimming and lower-casing both sides, and otherwise returns the last such
\* entry of data.
C11_LookupIgnoresCaseAndSpace ==
    Done("find_sender_by_full_name") =>
        /\ calls = <<>>
        /\ (result = NoEntry) <=> (C11_Matches = {})
        /\ C11_Matches # {} =>
              \E i \in C11_Matches :
                 /\ \A j \in C11_Matches : j <= i
                 /\ result = PyDict(args.data[i])

\* two entries spelled differently from the query and from each other match
C11_Witness ==
    /\ Done("find_sender_by_full_name")
    /\ C11_Matches = {1, 2}
    /\ args.data[1] # args.data[2]
    /\ args.data[2].first_name # args.first_name
    /\ args.data[2].last_name # args.last_name
    /\ result = PyDict(args.data[2])
    /\ calls = <<>>

\* the arguments of the create_waybill call that ships what the aggregate np
\* describes, with a non-cash payment method
C12_CreateArgs(np) ==
    [sender |-> np.sender, receiver |-> np.receiver,
     declared_price |-> Str(np.delivery.estimate_order_price),
     delivery_date |-> np.delivery_date,
     specified_weight |-> np.specified_weight,
     payment_method |-> NON_CASH, payer_type |-> np.delivery.payer,
     cargo_type |-> CARGO, comment |-> np.delivery.comment, goods_count |-> 1,
     with_backward_delivery |-> np.with_backward_delivery,
     backward_amount |-> np.backward_amount, postpaid_amount |-> np.postpaid_amount]

\* C12: the methodProperties update_waybill sends have the keys create_waybill
\* sends for the same sender, receiver, weight and non-cash payment method,
\* plus Ref, and every key of create_waybill carries the same value.
C12_UpdateHasCreateShape ==
    Done("update_waybill") =>
        LET sent    == calls[1].methodProperties
            created == CreateWaybillProps(C12_CreateArgs(args.nova_poshta))
        IN  /\ DOMAIN sent = DOMAIN created \cup {"Ref"}
            /\ \A k \in DOMAIN created : sent[k] = created[k]

====
